---- MODULE Spec2Model ----
(***************************************************************************)
(* Model of the bulk fetch kernel of the gathermedata download scripts.    *)
(*                                                                         *)
(* Two engines are modelled, selected by the variable `engine`:            *)
(*   "safedocs" - download_safedocs.py (download_unsafedocs.py is the same *)
(*                code with another prefix): per-key S3 download, the      *)
(*                retry loop and the existence check live together in      *)
(*                download_single_file;                                    *)
(*   "govdocs"  - download_govdocs.py: one zip archive per thread number,  *)
(*                existence check once in download_single_thread, then the *)
(*                retry_download wrapper around fetch_thread.              *)
(* Both submit every item to a ThreadPoolExecutor(max_workers = parallel)  *)
(* and tally the results on the main thread while iterating as_completed.  *)
(*                                                                         *)
(* The remote source is the environment: the outcome of each fetch attempt *)
(* is chosen nondeterministically when the attempt is made, and what was   *)
(* observed is kept per item in tries / faults / last.                     *)
(***************************************************************************)
EXTENDS Integers, Sequences, FiniteSets, TLC

\* ---------------------------------------------------------------- bounds
MaxItems == 2
MaxParallel == 2
MaxPages == 2
MaxObjects == 53
MaxMisses == 2

\* ------------------------------------------------------ program constants
MAX_RETRIES == 3
RETRY_DELAY == 2

REGISTER_LIMITS == {50, 200}
IMAGE_TARGETS == {50, 2000}
CONTRACT_LIMITS == {50, 500}
PAGE_SIZE == 100
CONFIRM_FILES == 100000
CONFIRM_THREADS == 250
GOVDOCS_THREADS == 1000

Engines == {"safedocs", "govdocs"}

Items == 1..MaxItems

\* What one fetch attempt can do.
\*   ok      : the transfer (and, for govdocs, the extraction) completed
\*   raise   : an exception before anything reached the destination
\*   status  : govdocs only, the GET answered with a status other than 200
\*   partial : govdocs, extractall raised after writing some members;
\*             register, iter_content raised after open(local_path, 'wb')
\*   empty   : govdocs only, status 200 and a valid archive with no entries
AttemptKinds(e) ==
    CASE e \in {"safedocs", "scenarios", "corpus"} -> {"ok", "raise"}
      [] e = "register" -> {"ok", "raise", "status", "partial"}
      [] OTHER -> {"ok", "raise", "status", "partial", "empty"}

\* The attempt kinds that leave fetch with an exception.
RaisedKinds == {"raise", "partial"}

\* The destination of an item (dest_path, a file, for safedocs; thread_dir,
\* a directory, for govdocs):
\*   absent   : nothing at the path
\*   empty    : a zero-length file / a directory without entries
\*   partial  : some members of the archive (govdocs), the first part of
\*              the body (register)
\*   complete : the whole file / every member of the archive
\*   blocked  : something else is in the way: a regular file or an unreadable
\*              directory at thread_dir, a directory at dest_path
StoreStates == {"absent", "empty", "partial", "complete", "blocked"}

VARIABLES
    engine,     \* which script runs
    nfiles,     \* number of enumerated items (len(files) / num_threads)
    parallel,   \* max_workers of the pool
    run,        \* "first" or "second" run over the same store
    prev,       \* the tally the first run ended with (zero during it)
    store,      \* destination of each item, one of StoreStates
    store0,     \* the store as it was when the current run started
    pcMain,     \* position of the main thread
    submitted,  \* number of items handed to executor.submit so far
    queue,      \* the executor's work queue (FIFO)
    worker,     \* per pool thread: the item it runs and where it is
    result,     \* per item: the future's result, "none" while not done
    tries,      \* per item: fetch attempts made in this run
    faults,     \* per item: attempts of this run that raised
    last,       \* per item: kind of the latest attempt, "none" before any
    claimed,    \* per item: number of times a worker took it from the queue
    counted,    \* per item: number of times the main thread tallied it
    updates,    \* number of observer (progress bar) updates in this run
    stats,      \* the tally: downloaded / skipped / failed
    slept,      \* per item: seconds spent in time.sleep between attempts
    exitCode,   \* the process exit status, -1 while the process runs
    args,       \* the parsed command line (argparse Namespace)
    limit,      \* file_limit / limit of list_s3_files: <<>> for None, <<n>>
    remote,     \* the remote listing: a sequence of pages of entries
    pagesRead,  \* listing pages requested from the remote so far
    listErr,    \* a listing request raised
    doc,        \* data_loader: index of the document being handled
    reported,   \* items named as failed in the output of the run
    keys,       \* per item: the S3 key the listing gave for it
    obsFault,   \* items at whose progress update the observer raises
    src,        \* data_loader: where each of the five source threads is
    joined,     \* data_loader: number of threads the main thread has joined
    response,   \* what was typed at the confirmation prompt ("unasked")
    count,      \* data_loader: `count` / `downloaded` of a source function
    ident       \* scenarios script: the id given is "known" or "unknown"

vars == <<engine, nfiles, parallel, run, prev, store, store0, pcMain,
          submitted, queue, worker, result, tries, faults, last, claimed,
          counted, updates, stats, slept, exitCode, args, limit, remote,
          pagesRead, listErr, doc, reported, keys, obsFault, src, joined,
          response, count, ident>>

\* What lies before the pool (command line, listing) and beside it (the
\* sequential loader): no step of the pool or of its collection loop
\* touches it.
front == <<args, limit, remote, pagesRead, listErr, doc>>

Files == 1..nfiles

Workers == 1..parallel

Idle == [item |-> 0, pc |-> "idle"]

ZeroStats == [downloaded |-> 0, skipped |-> 0, failed |-> 0]

\* The names of the five threads of data_loader.py, in the order of the list.
Sources == <<"GovDocs", "Contracts", "Images", "SEC", "FedRegister">>

\* The part of an S3 key that is S3_PREFIX; the other parts of a key are
\* the numbers of the items.
S3_PREFIX == 0

\* Keys as the bucket normally holds them: the prefix, then a name of the
\* item's own.
PlainKeys == [i \in Items |-> <<S3_PREFIX, i>>]

\* What no step of the download scripts changes: the keys of the listing
\* and the observer's behaviour are given, and the threads of data_loader.py
\* do not exist in them.
env == <<keys, obsFault, src, joined, response, count, ident>>

NoEnv ==
    /\ keys = PlainKeys
    /\ obsFault = {}
    /\ src = [k \in 1..Len(Sources) |-> "new"]
    /\ joined = 0
    /\ response = "unasked"
    /\ count = 0
    /\ ident = "known"

\* A command line without any option: tier is None (""), limit / threads is
\* None (<<>>), start has its default, --list is not set.
NoArgs == [tier |-> "", limit |-> <<>>, start |-> 0, list |-> FALSE]

\* An existence check that never finds the destination.
AlreadyPresent_Never(e, s) == FALSE

\* os.path.exists(dest_path) in download_single_file: a file of any length
\* passes. os.path.exists(thread_dir) and len(os.listdir(thread_dir)) > 0 in
\* download_single_thread: an empty directory does not pass, a directory
\* holding part of an archive does.
AlreadyPresent(e, s) ==
    IF e = "safedocs" THEN s # "absent" ELSE s \in {"partial", "complete"}

\* The existence check itself raises: os.path.exists(thread_dir) is true and
\* os.listdir(thread_dir) raises NotADirectoryError or PermissionError.
\* os.path.exists(dest_path) alone never raises.
ExistsRaises(e, s) == e = "govdocs" /\ s = "blocked"

\* The give-up test one attempt late.
LastAttempt_OffByOne(attempt) == attempt = MAX_RETRIES

\* `if attempt == MAX_RETRIES - 1`, attempt being the number of attempts
\* that raised before the current one.
LastAttempt(attempt) == attempt = MAX_RETRIES - 1

\* The pool and the per-run bookkeeping before anything is submitted.
FreshPool ==
    /\ submitted = 0
    /\ queue = <<>>
    /\ worker = [w \in Workers |-> Idle]
    /\ result = [i \in Items |-> "none"]
    /\ tries = [i \in Items |-> 0]
    /\ faults = [i \in Items |-> 0]
    /\ last = [i \in Items |-> "none"]
    /\ claimed = [i \in Items |-> 0]
    /\ counted = [i \in Items |-> 0]
    /\ updates = 0
    /\ stats = ZeroStats
    /\ slept = [i \in Items |-> 0]
    /\ exitCode = -1
    /\ reported = {}

\* The items are enumerated and nothing is submitted yet.
FreshRun == pcMain = "start" /\ FreshPool

\* The run is looked at from the moment the items are enumerated: the
\* command line and the listing are behind it and are left at their empty
\* values, and the sequential loader is not running.
NoFront ==
    /\ args = NoArgs
    /\ limit = <<>>
    /\ remote = <<>>
    /\ pagesRead = 0
    /\ listErr = FALSE
    /\ doc = 0

\* The local tree is whatever earlier runs and the user left: each
\* destination absent or complete, the first one possibly empty (one empty
\* destination is enough to tell the two existence checks apart).
Init ==
    /\ NoEnv
    /\ engine \in Engines
    /\ nfiles \in 0..MaxItems
    /\ parallel \in 1..MaxParallel
    /\ run = "first"
    /\ prev = ZeroStats
    /\ store \in [Items -> {"absent", "empty", "complete"}]
    /\ \A i \in Items : i > nfiles => store[i] = "absent"
    /\ \A i \in Items : store[i] = "empty" => i = 1
    /\ store0 = store
    /\ FreshRun
    /\ NoFront

\* The initial states in which no destination is empty.
InitNoEmpty == Init /\ \A i \in Items : store[i] # "empty"

\* ------------------------------------------------------------ one attempt

\* s3_client.download_file(S3_BUCKET, key, dest_path): the transfer either
\* completes, and only then is dest_path put in place, or raises.
DownloadFile(kind) == IF kind = "ok" THEN "written" ELSE "exception"

\* download_single_file, one pass of `for attempt in range(MAX_RETRIES)`
\* after the existence check: the status returned, or "retry".
SingleFileStatus(v, attempt) ==
    IF v = "written" THEN "downloaded"
    ELSE IF LastAttempt(attempt) THEN "failed"
    ELSE "retry"

\* fetch_thread: the value it returns (file_count, which is 0 for an archive
\* without entries, or None when the status is not 200), or "exception".
FetchThread(kind) ==
    CASE kind = "ok" -> "files"
      [] kind = "empty" -> "zero"
      [] kind = "status" -> "None"
      [] OTHER -> "exception"

\* retry_download's wrapper, one pass of the loop around func: whatever func
\* returns is returned as it is; an exception is retried unless it was the
\* last attempt, which returns None.
RetryDownload(v, attempt) ==
    IF v = "exception"
    THEN IF LastAttempt(attempt) THEN "None" ELSE "retry"
    ELSE v

\* download_single_thread, `if result:` on what the wrapper returned.
ThreadStatus(r) == IF r = "files" THEN "downloaded" ELSE "failed"

\* What download_single_file / download_single_thread do with one attempt.
AttemptStatus(e, kind, attempt) ==
    IF e = "safedocs"
    THEN SingleFileStatus(DownloadFile(kind), attempt)
    ELSE LET r == RetryDownload(FetchThread(kind), attempt)
         IN  IF r = "retry" THEN "retry" ELSE ThreadStatus(r)

\* A transfer that never reaches the destination path.
StoreAfter_NoWrite(kind, s) == s

\* The destination after one attempt: a completed transfer or extraction
\* leaves it complete, extractall raising part-way leaves what it wrote.
StoreAfter(kind, s) ==
    CASE kind = "ok" -> "complete"
      [] kind = "partial" -> "partial"
      [] OTHER -> s

\* A wrapper that sleeps after every attempt that raised, the last included.
Slept_AfterLast(kind, attempt, n) ==
    IF kind \in RaisedKinds THEN n + RETRY_DELAY ELSE n

\* time.sleep(RETRY_DELAY) in the except branch, reached only when the
\* attempt that raised was not the last one: the seconds slept so far.
Slept(kind, attempt, n) ==
    IF kind \in RaisedKinds /\ ~LastAttempt(attempt)
    THEN n + RETRY_DELAY
    ELSE n

\* Where a worker goes on after an attempt that is retried: the loop of
\* download_single_file starts again at the existence check, the wrapper of
\* retry_download calls fetch_thread again.
RetryPc(e) == IF e = "safedocs" THEN "check" ELSE "fetch"

\* ------------------------------------------------------------ main thread

\* A tally without the 'skipped' branch.
Tally_NoSkipped(e, st, status) ==
    IF status = "downloaded" THEN [st EXCEPT !.downloaded = @ + 1]
    ELSE IF status = "failed" THEN [st EXCEPT !.failed = @ + 1]
    ELSE st

\* The if / elif chains over the status of a finished future.
Tally(e, st, status) ==
    IF status = "downloaded" THEN [st EXCEPT !.downloaded = @ + 1]
    ELSE IF status = "skipped" THEN [st EXCEPT !.skipped = @ + 1]
    ELSE IF e = "govdocs" \/ status = "failed" THEN [st EXCEPT !.failed = @ + 1]
    ELSE st

\* The lines that name an item: download_govdocs prints the thread number
\* of every future that is neither 'success' nor 'skipped'; download_safedocs
\* keeps counts only and drops the key and the error of the result.
\* A path component is kept by key.replace(S3_PREFIX, '') when it is not an
\* occurrence of the prefix.
NotPrefix(t) == t # S3_PREFIX

\* rel_path = key.replace(S3_PREFIX, ''): str.replace removes every
\* occurrence of the prefix, wherever it stands in the key.
RelPath(key) == SelectSeq(key, NotPrefix)

\* The destination an item is written to, named by the file under base_dir:
\* os.path.join(base_dir, rel_path) in download_safedocs; the other
\* downloaders derive it from the item's own number or name
\* (f"{thread_num:03d}" in download_single_thread).
Dest(e, k, i) == IF e = "safedocs" THEN RelPath(k[i])[1] ELSE i

Reported(e, rep, i, status) ==
    IF e = "govdocs" /\ status \notin {"downloaded", "skipped"}
    THEN rep \cup {i}
    ELSE rep

\* download_safedocs returns before creating the tally when the listing is
\* empty; download_govdocs enters the pool with an empty range.
Start ==
    /\ pcMain = "start"
    /\ pcMain' = IF nfiles = 0
                 THEN (IF engine = "safedocs" THEN "nofiles" ELSE "collect")
                 ELSE "submit"
    /\ exitCode' = IF nfiles = 0 /\ engine = "safedocs" THEN 0 ELSE exitCode
    /\ UNCHANGED env
    /\ UNCHANGED reported
    /\ UNCHANGED front
    /\ UNCHANGED slept
    /\ UNCHANGED <<engine, nfiles, parallel, run, prev, store, store0,
                   submitted, queue, worker, result, tries, faults, last,
                   claimed, counted, updates, stats>>

\* executor.submit for the next item of files / thread_range.
Submit ==
    /\ pcMain = "submit"
    /\ submitted < nfiles
    /\ submitted' = submitted + 1
    /\ queue' = Append(queue, submitted + 1)
    /\ pcMain' = IF submitted + 1 = nfiles THEN "collect" ELSE "submit"
    /\ UNCHANGED env
    /\ UNCHANGED reported
    /\ UNCHANGED front
    /\ UNCHANGED <<slept, exitCode>>
    /\ UNCHANGED <<engine, nfiles, parallel, run, prev, store, store0,
                   worker, result, tries, faults, last, claimed, counted,
                   updates, stats>>

\* A tally whose increment is lost when another finished future is waiting
\* to be tallied at the same moment (an unsynchronised read-modify-write).
Collect_LostUpdate(i) ==
    /\ pcMain = "collect"
    /\ i \in Files
    /\ result[i] # "none"
    /\ counted[i] = 0
    /\ stats' = IF \E j \in Files : j # i /\ result[j] # "none" /\ counted[j] = 0
                THEN stats
                ELSE Tally(engine, stats, result[i])
    /\ counted' = [counted EXCEPT ![i] = @ + 1]
    /\ updates' = updates + 1
    /\ UNCHANGED env
    /\ UNCHANGED reported
    /\ UNCHANGED front
    /\ UNCHANGED <<slept, exitCode>>
    /\ UNCHANGED <<engine, nfiles, parallel, run, prev, store, store0,
                   pcMain, submitted, queue, worker, result, tries, faults,
                   last, claimed>>

\* A collection loop that stops at the first failed future instead of
\* tallying it.
Collect_AbortOnFailed(i) ==
    /\ pcMain = "collect"
    /\ i \in Files
    /\ result[i] # "none"
    /\ result[i] # "failed"
    /\ counted[i] = 0
    /\ stats' = Tally(engine, stats, result[i])
    /\ counted' = [counted EXCEPT ![i] = @ + 1]
    /\ updates' = updates + 1
    /\ UNCHANGED env
    /\ UNCHANGED reported
    /\ UNCHANGED front
    /\ UNCHANGED <<slept, exitCode>>
    /\ UNCHANGED <<engine, nfiles, parallel, run, prev, store, store0,
                   pcMain, submitted, queue, worker, result, tries, faults,
                   last, claimed>>

\* One iteration of `for future in as_completed(...)`: a finished future
\* not yet yielded, its status tallied and the progress bar updated.
\* future.result() raises again, on the main thread, what the worker
\* function raised; nothing around it catches. pbar.update(1) comes after
\* the counters, in the same unguarded loop body: what it raises leaves the
\* loop the same way, the counter of this item already incremented.
Collect(i) ==
    /\ pcMain = "collect"
    /\ i \in Files
    /\ result[i] # "none"
    /\ counted[i] = 0
    /\ IF result[i] = "exception"
       THEN /\ pcMain' = "raised"
            /\ UNCHANGED <<stats, counted, updates, reported>>
       ELSE /\ stats' = Tally(engine, stats, result[i])
            /\ reported' = Reported(engine, reported, i, result[i])
            /\ counted' = [counted EXCEPT ![i] = @ + 1]
            /\ IF i \in obsFault
               THEN /\ pcMain' = "raised"
                    /\ UNCHANGED updates
               ELSE /\ updates' = updates + 1
                    /\ UNCHANGED pcMain
    /\ UNCHANGED env
    /\ UNCHANGED front
    /\ UNCHANGED <<slept, exitCode>>
    /\ UNCHANGED <<engine, nfiles, parallel, run, prev, store, store0,
                   submitted, queue, worker, result, tries, faults,
                   last, claimed>>

\* The exception leaves `with ThreadPoolExecutor(...)`, whose exit waits for
\* the submitted calls to end, then download_govdocs and the script: a
\* traceback, no summary, exit status 1.
Unwind ==
    /\ pcMain = "raised"
    /\ queue = <<>>
    /\ \A w \in Workers : worker[w].pc = "idle"
    /\ pcMain' = "crashed"
    /\ exitCode' = 1
    /\ UNCHANGED env
    /\ UNCHANGED reported
    /\ UNCHANGED front
    /\ UNCHANGED <<engine, nfiles, parallel, run, prev, store, store0,
                   submitted, queue, worker, result, tries, faults, last,
                   claimed, counted, updates, stats, slept>>

\* as_completed is exhausted, the pool is shut down, the summary printed.
Finish ==
    /\ pcMain = "collect"
    /\ \A i \in Files : counted[i] > 0
    /\ pcMain' = "summary"
    /\ exitCode' = 0
    /\ UNCHANGED env
    /\ UNCHANGED reported
    /\ UNCHANGED front
    /\ UNCHANGED slept
    /\ UNCHANGED <<engine, nfiles, parallel, run, prev, store, store0,
                   submitted, queue, worker, result, tries, faults, last,
                   claimed, counted, updates, stats>>

\* ----------------------------------------------------------- pool threads

\* A pool thread that takes the head of the queue and leaves it queued.
Claim_KeepsQueued(w) ==
    /\ worker[w].pc = "idle"
    /\ queue # <<>>
    /\ worker' = [worker EXCEPT ![w] = [item |-> Head(queue), pc |-> "check"]]
    /\ claimed' = [claimed EXCEPT ![Head(queue)] = @ + 1]
    /\ UNCHANGED env
    /\ UNCHANGED reported
    /\ UNCHANGED front
    /\ UNCHANGED <<slept, exitCode>>
    /\ UNCHANGED <<engine, nfiles, parallel, run, prev, store, store0,
                   pcMain, submitted, queue, result, tries, faults, last,
                   counted, updates, stats>>

\* A pool thread that takes the next work item whether or not it has finished
\* the one it holds.
Claim_Busy(w) ==
    /\ queue # <<>>
    /\ worker' = [worker EXCEPT ![w] = [item |-> Head(queue), pc |-> "check"]]
    /\ queue' = Tail(queue)
    /\ claimed' = [claimed EXCEPT ![Head(queue)] = @ + 1]
    /\ UNCHANGED env
    /\ UNCHANGED reported
    /\ UNCHANGED front
    /\ UNCHANGED <<slept, exitCode>>
    /\ UNCHANGED <<engine, nfiles, parallel, run, prev, store, store0,
                   pcMain, submitted, result, tries, faults, last, counted,
                   updates, stats>>

\* A pool thread takes the next work item from the queue.
Claim(w) ==
    /\ worker[w].pc = "idle"
    /\ queue # <<>>
    /\ worker' = [worker EXCEPT ![w] = [item |-> Head(queue), pc |-> "check"]]
    /\ queue' = Tail(queue)
    /\ claimed' = [claimed EXCEPT ![Head(queue)] = @ + 1]
    /\ UNCHANGED env
    /\ UNCHANGED reported
    /\ UNCHANGED front
    /\ UNCHANGED <<slept, exitCode>>
    /\ UNCHANGED <<engine, nfiles, parallel, run, prev, store, store0,
                   pcMain, submitted, result, tries, faults, last, counted,
                   updates, stats>>

\* An existence check whose worker adds to the tally itself before handing
\* the status back.
CheckExists_WritesTally(w) ==
    /\ worker[w].pc = "check"
    /\ LET i == worker[w].item
       IN  IF AlreadyPresent(engine, store[i])
           THEN /\ result' = [result EXCEPT ![i] = "skipped"]
                /\ worker' = [worker EXCEPT ![w] = Idle]
                /\ stats' = [stats EXCEPT !.skipped = @ + 1]
           ELSE /\ worker' = [worker EXCEPT ![w].pc = "fetch"]
                /\ UNCHANGED <<result, stats>>
    /\ UNCHANGED env
    /\ UNCHANGED reported
    /\ UNCHANGED front
    /\ UNCHANGED <<slept, exitCode>>
    /\ UNCHANGED <<engine, nfiles, parallel, run, prev, store, store0,
                   pcMain, submitted, queue, tries, faults, last, claimed,
                   counted, updates>>

\* The existence check: 'skipped' when the destination is there, else on to
\* the fetch. In download_single_thread the check stands before the wrapped
\* fetch_thread, outside any try: what it raises ends the worker function
\* and is kept in the future.
CheckExists(w) ==
    /\ worker[w].pc = "check"
    /\ LET i == worker[w].item
           d == Dest(engine, keys, i)
       IN  IF ExistsRaises(engine, store[d])
           THEN /\ result' = [result EXCEPT ![i] = "exception"]
                /\ worker' = [worker EXCEPT ![w] = Idle]
           ELSE IF AlreadyPresent(engine, store[d])
           THEN /\ result' = [result EXCEPT ![i] = "skipped"]
                /\ worker' = [worker EXCEPT ![w] = Idle]
           ELSE /\ worker' = [worker EXCEPT ![w].pc = "fetch"]
                /\ UNCHANGED result
    /\ UNCHANGED env
    /\ UNCHANGED reported
    /\ UNCHANGED front
    /\ UNCHANGED <<slept, exitCode>>
    /\ UNCHANGED <<engine, nfiles, parallel, run, prev, store, store0,
                   pcMain, submitted, queue, tries, faults, last, claimed,
                   counted, updates, stats>>

\* One fetch attempt of the item a worker holds, with the outcome `kind`.
Fetch(w, kind) ==
    /\ worker[w].pc = "fetch"
    /\ kind \in AttemptKinds(engine)
    /\ LET i == worker[w].item
           d == Dest(engine, keys, i)
           st == AttemptStatus(engine, kind, faults[i])
       IN  /\ tries' = [tries EXCEPT ![i] = @ + 1]
           /\ last' = [last EXCEPT ![i] = kind]
           /\ faults' = [faults EXCEPT
                           ![i] = IF kind \in RaisedKinds THEN @ + 1 ELSE @]
           /\ store' = [store EXCEPT ![d] = StoreAfter(kind, @)]
           /\ slept' = [slept EXCEPT ![i] = Slept(kind, faults[i], @)]
           /\ IF st = "retry"
              THEN /\ worker' = [worker EXCEPT ![w].pc = RetryPc(engine)]
                   /\ UNCHANGED result
              ELSE /\ worker' = [worker EXCEPT ![w] = Idle]
                   /\ result' = [result EXCEPT ![i] = st]
    /\ UNCHANGED env
    /\ UNCHANGED reported
    /\ UNCHANGED front
    /\ UNCHANGED exitCode
    /\ UNCHANGED <<engine, nfiles, parallel, run, prev, store0, pcMain,
                   submitted, queue, claimed, counted, updates, stats>>

\* ------------------------------------------------------------- second run

\* The script is started again over the store the first run left.
Rerun ==
    /\ run = "first"
    /\ pcMain \in {"summary", "nofiles"}
    /\ run' = "second"
    /\ prev' = stats
    /\ store0' = store
    /\ pcMain' = "start"
    /\ submitted' = 0
    /\ queue' = <<>>
    /\ worker' = [w \in Workers |-> Idle]
    /\ result' = [i \in Items |-> "none"]
    /\ tries' = [i \in Items |-> 0]
    /\ faults' = [i \in Items |-> 0]
    /\ last' = [i \in Items |-> "none"]
    /\ claimed' = [i \in Items |-> 0]
    /\ counted' = [i \in Items |-> 0]
    /\ updates' = 0
    /\ stats' = ZeroStats
    /\ slept' = [i \in Items |-> 0]
    /\ exitCode' = -1
    /\ reported' = {}
    /\ UNCHANGED env
    /\ UNCHANGED front
    /\ UNCHANGED <<engine, nfiles, parallel, store>>

\* The steps of one run.
NextRun ==
    \/ Start
    \/ Submit
    \/ \E i \in Items : Collect(i)
    \/ Finish
    \/ \E w \in Workers : Claim(w)
    \/ \E w \in Workers : CheckExists(w)
    \/ \E w \in Workers : \E kind \in AttemptKinds(engine) : Fetch(w, kind)

Next ==
    \/ NextRun
    \/ Rerun

Spec == Init /\ [][Next]_vars

\* One run over a tree in which destinations may be blocked.
InitBlocked ==
    /\ NoEnv
    /\ engine \in Engines
    /\ nfiles \in 0..MaxItems
    /\ parallel \in 1..MaxParallel
    /\ run = "first"
    /\ prev = ZeroStats
    /\ store \in [Items -> {"absent", "blocked", "complete"}]
    /\ \A i \in Items : i > nfiles => store[i] = "absent"
    /\ store0 = store
    /\ FreshRun
    /\ NoFront

NextBlocked ==
    \/ NextRun
    \/ Unwind

BlockedSpec == InitBlocked /\ [][NextBlocked]_vars

\* One run in which the progress bar raises when it is updated for at most
\* one of the items (its output stream is closed or broken at that moment).
InitObserver ==
    /\ keys = PlainKeys
    /\ src = [k \in 1..Len(Sources) |-> "new"]
    /\ joined = 0
    /\ response = "unasked"
    /\ count = 0
    /\ ident = "known"
    /\ engine \in Engines
    /\ nfiles \in 0..MaxItems
    /\ obsFault \in {{}} \cup {{i} : i \in Files}
    /\ parallel \in 1..MaxParallel
    /\ run = "first"
    /\ prev = ZeroStats
    /\ store \in [Items -> {"absent", "complete"}]
    /\ \A i \in Items : i > nfiles => store[i] = "absent"
    /\ store0 = store
    /\ FreshRun
    /\ NoFront

NextObserver ==
    \/ NextRun
    \/ Unwind

ObserverSpec == InitObserver /\ [][NextObserver]_vars

\* The keys a listing of the prefix can return: every key starts with the
\* prefix (the listing is filtered by it) and goes on with a name, or with
\* the prefix text once more and then a name; S3 keys are free strings.
\* Item i has its own name, or the name of an earlier item behind a
\* repeated prefix. The keys of a listing are pairwise distinct.
ListedKeys ==
    LET KeysOf(i) == {<<S3_PREFIX, i>>} \cup
                     {<<S3_PREFIX, S3_PREFIX, j>> : j \in 1..(i - 1)}
    IN  {k \in [Items -> UNION {KeysOf(i) : i \in Items}] :
            /\ \A i \in Items : k[i] \in KeysOf(i)
            /\ \A i, j \in Items : i # j => k[i] # k[j]}

\* One run over a listing of such keys.
InitPath ==
    /\ keys \in ListedKeys
    /\ obsFault = {}
    /\ src = [k \in 1..Len(Sources) |-> "new"]
    /\ joined = 0
    /\ response = "unasked"
    /\ count = 0
    /\ ident = "known"
    /\ engine \in Engines
    /\ nfiles \in 0..MaxItems
    /\ parallel \in 1..MaxParallel
    /\ run = "first"
    /\ prev = ZeroStats
    /\ store \in [Items -> {"absent", "complete"}]
    /\ \A i \in Items : i > nfiles => store[i] = "absent"
    /\ store0 = store
    /\ FreshRun
    /\ NoFront

PathSpec == InitPath /\ [][NextRun]_vars

\* One run, in which every thread that can take a step eventually takes
\* one: the pool threads and the main thread are operating-system threads,
\* and every blocking call of a step (GET, download_file, sleep) returns or
\* raises. Empty destinations play no part in how a run ends and are left
\* out of the initial states here.
FairRunSpec == InitNoEmpty /\ [][NextRun]_vars /\ WF_vars(NextRun)

\* ---------------------------------------------------------------- listing

\* One page of list_objects_v2: its 'Contents', keys of files and keys that
\* end with '/' (directory markers); <<>> is a page without 'Contents'.
Pages == UNION {[1..n -> {"file", "dir"}] : n \in 0..MaxItems}

\* Number of file keys in a page.
FilesIn(page) == Cardinality({k \in DOMAIN page : page[k] = "file"})

\* Number of file keys in the first p pages of a listing.
RECURSIVE FilesUpTo(_, _)
FilesUpTo(r, p) == IF p = 0 THEN 0 ELSE FilesUpTo(r, p - 1) + FilesIn(r[p])

FileCount(r) == FilesUpTo(r, Len(r))

\* What the remote can expose: at least one page (the paginator always sends
\* a first request), at most MaxItems file keys in all.
Listings ==
    {r \in UNION {[1..n -> Pages] : n \in 1..MaxPages} :
        FileCount(r) <= MaxItems}

\* Python truth of an optional int: None and 0 are false.
Truthy(x) == x # <<>> /\ x[1] # 0

\* A scan of a page that never looks at the limit.
RECURSIVE ScanPage_NoLimit(_, _, _)
ScanPage_NoLimit(page, n, lim) ==
    IF page = <<>> THEN [files |-> n, returned |-> FALSE]
    ELSE IF Head(page) = "dir" THEN ScanPage_NoLimit(Tail(page), n, lim)
    ELSE ScanPage_NoLimit(Tail(page), n + 1, lim)

\* `for obj in page['Contents']` with n keys collected before the page:
\* directory markers are passed over, a file key is appended, and
\* `if limit and len(files) >= limit` returns from list_s3_files at once.
RECURSIVE ScanPage(_, _, _)
ScanPage(page, n, lim) ==
    IF page = <<>> THEN [files |-> n, returned |-> FALSE]
    ELSE IF Head(page) = "dir" THEN ScanPage(Tail(page), n, lim)
    ELSE IF Truthy(lim) /\ n + 1 >= lim[1]
         THEN [files |-> n + 1, returned |-> TRUE]
    ELSE ScanPage(Tail(page), n + 1, lim)

\* The paginator requests the next page and the page is scanned; len(files)
\* is kept in nfiles. When the limit is reached list_s3_files returns and
\* download_safedocs goes on with the files.
ListPage ==
    /\ pcMain = "list"
    /\ pagesRead < Len(remote)
    /\ LET r == ScanPage(remote[pagesRead + 1], nfiles, limit)
       IN  /\ nfiles' = r.files
           /\ pcMain' = IF r.returned THEN "start" ELSE "list"
    /\ pagesRead' = pagesRead + 1
    /\ UNCHANGED env
    /\ UNCHANGED reported
    /\ UNCHANGED <<engine, parallel, run, prev, store, store0, submitted,
                   queue, worker, result, tries, faults, last, claimed,
                   counted, updates, stats, slept, exitCode, args, limit,
                   remote, listErr, doc>>

\* A listing fault after which the keys collected so far are returned.
ListFault_KeepsFiles ==
    /\ pcMain = "list"
    /\ pagesRead < Len(remote)
    /\ pagesRead' = pagesRead + 1
    /\ listErr' = TRUE
    /\ pcMain' = "start"
    /\ UNCHANGED env
    /\ UNCHANGED reported
    /\ UNCHANGED <<engine, nfiles, parallel, run, prev, store, store0,
                   submitted, queue, worker, result, tries, faults, last,
                   claimed, counted, updates, stats, slept, exitCode, args,
                   limit, remote, doc>>

\* The request for the next page raises: `except Exception` prints the error
\* and returns [], whatever was collected before.
ListFault ==
    /\ pcMain = "list"
    /\ pagesRead < Len(remote)
    /\ pagesRead' = pagesRead + 1
    /\ listErr' = TRUE
    /\ nfiles' = 0
    /\ pcMain' = "start"
    /\ UNCHANGED env
    /\ UNCHANGED reported
    /\ UNCHANGED <<engine, parallel, run, prev, store, store0, submitted,
                   queue, worker, result, tries, faults, last, claimed,
                   counted, updates, stats, slept, exitCode, args, limit,
                   remote, doc>>

\* The paginator is exhausted: `return files`.
ListEnd ==
    /\ pcMain = "list"
    /\ pagesRead = Len(remote)
    /\ pcMain' = "start"
    /\ UNCHANGED env
    /\ UNCHANGED reported
    /\ UNCHANGED <<engine, nfiles, parallel, run, prev, store, store0,
                   submitted, queue, worker, result, tries, faults, last,
                   claimed, counted, updates, stats, slept, exitCode, args,
                   limit, remote, pagesRead, listErr, doc>>

\* download_safedocs at `files = list_s3_files(s3_client, limit=file_limit)`:
\* file_limit is None or an int other than 0 (a tier's count or a --limit
\* that passed main), nothing is listed yet, the destinations are absent and
\* the pool has one thread.
InitList ==
    /\ NoEnv
    /\ engine = "safedocs"
    /\ nfiles = 0
    /\ parallel = 1
    /\ run = "first"
    /\ prev = ZeroStats
    /\ store = [i \in Items |-> "absent"]
    /\ store0 = store
    /\ pcMain = "list"
    /\ FreshPool
    /\ args = NoArgs
    /\ limit \in {<<>>} \cup {<<n>> : n \in (-1..MaxItems) \ {0}}
    /\ remote \in Listings
    /\ pagesRead = 0
    /\ listErr = FALSE
    /\ doc = 0

\* A listing followed by the run over what it returned.
NextList ==
    \/ ListPage
    \/ ListFault
    \/ ListEnd
    \/ NextRun

ListSpec == InitList /\ [][NextList]_vars

\* ------------------------------------- data_loader: download_federal_register

\* os.path.exists(local_path): a file of any length passes.
LocalPathExists(s) == s # "absent"

\* fetch_pdf: True after the whole body is written, None when the status is
\* not 200, or an exception (from requests.get, or from iter_content with
\* local_path already opened for writing).
FetchPdf(kind) ==
    CASE kind = "ok" -> "True"
      [] kind = "status" -> "None"
      [] OTHER -> "exception"

\* The top of `for doc in results`, the documents with a pdf_url being
\* numbered 1..nfiles over the three document types: the loop ends after the
\* last document or when `downloaded >= limit`; a document whose local_path
\* exists is counted as downloaded and passed over; any other goes to
\* fetch_pdf.
RegisterCheck ==
    /\ pcMain = "doc"
    /\ IF doc > nfiles \/ stats.downloaded >= limit[1]
       THEN /\ pcMain' = "registered"
            /\ UNCHANGED <<doc, result, stats>>
       ELSE IF LocalPathExists(store[doc])
       THEN /\ result' = [result EXCEPT ![doc] = "skipped"]
            /\ stats' = [stats EXCEPT !.downloaded = @ + 1]
            /\ doc' = doc + 1
            /\ UNCHANGED pcMain
       ELSE /\ pcMain' = "pdf"
            /\ UNCHANGED <<doc, result, stats>>
    /\ UNCHANGED env
    /\ UNCHANGED reported
    /\ UNCHANGED <<engine, nfiles, parallel, run, prev, store, store0,
                   submitted, queue, worker, tries, faults, last, claimed,
                   counted, updates, slept, exitCode, args, limit, remote,
                   pagesRead, listErr>>

\* One pass of retry_download's loop around fetch_pdf for the current
\* document, and what follows the wrapper's return: `if fetch_pdf():
\* downloaded += 1`, then the next document.
RegisterFetch(kind) ==
    /\ pcMain = "pdf"
    /\ kind \in AttemptKinds(engine)
    /\ LET r == RetryDownload(FetchPdf(kind), faults[doc])
       IN  /\ tries' = [tries EXCEPT ![doc] = @ + 1]
           /\ last' = [last EXCEPT ![doc] = kind]
           /\ faults' = [faults EXCEPT
                           ![doc] = IF kind \in RaisedKinds THEN @ + 1 ELSE @]
           /\ store' = [store EXCEPT ![doc] = StoreAfter(kind, @)]
           /\ slept' = [slept EXCEPT ![doc] = Slept(kind, faults[doc], @)]
           /\ IF r = "retry"
              THEN UNCHANGED <<pcMain, doc, result, stats>>
              ELSE /\ pcMain' = "doc"
                   /\ doc' = doc + 1
                   /\ result' = [result EXCEPT
                         ![doc] = IF r = "True" THEN "downloaded" ELSE "failed"]
                   /\ stats' = IF r = "True"
                               THEN [stats EXCEPT !.downloaded = @ + 1]
                               ELSE stats
    /\ UNCHANGED env
    /\ UNCHANGED reported
    /\ UNCHANGED <<engine, nfiles, parallel, run, prev, store0, submitted,
                   queue, worker, claimed, counted, updates, exitCode, args,
                   limit, remote, pagesRead, listErr>>

\* data_loader.py is started again over the directory the first run left.
RegisterRerun ==
    /\ run = "first"
    /\ pcMain = "registered"
    /\ run' = "second"
    /\ prev' = stats
    /\ store0' = store
    /\ pcMain' = "doc"
    /\ doc' = 1
    /\ result' = [i \in Items |-> "none"]
    /\ tries' = [i \in Items |-> 0]
    /\ faults' = [i \in Items |-> 0]
    /\ last' = [i \in Items |-> "none"]
    /\ slept' = [i \in Items |-> 0]
    /\ stats' = ZeroStats
    /\ UNCHANGED env
    /\ UNCHANGED reported
    /\ UNCHANGED <<engine, nfiles, parallel, store, submitted, queue, worker,
                   claimed, counted, updates, exitCode, args, limit, remote,
                   pagesRead, listErr>>

\* download_federal_register before its first document: `limit` is 50 or
\* 200 by mode, each local_path is absent or a complete PDF of an earlier
\* run.
InitRegister ==
    /\ NoEnv
    /\ engine = "register"
    /\ nfiles \in 0..MaxItems
    /\ parallel = 1
    /\ run = "first"
    /\ prev = ZeroStats
    /\ store \in [Items -> {"absent", "complete"}]
    /\ \A i \in Items : i > nfiles => store[i] = "absent"
    /\ store0 = store
    /\ pcMain = "doc"
    /\ FreshPool
    /\ args = NoArgs
    /\ limit \in {<<n>> : n \in REGISTER_LIMITS}
    /\ remote = <<>>
    /\ pagesRead = 0
    /\ listErr = FALSE
    /\ doc = 1

NextRegister ==
    \/ RegisterCheck
    \/ \E kind \in AttemptKinds(engine) : RegisterFetch(kind)
    \/ RegisterRerun

RegisterSpec == InitRegister /\ [][NextRegister]_vars

\* ------------------------- download_digitalcorpora_scenarios: download_scenario

\* download_file_from_s3: makedirs and download_file inside one try, True
\* when they return and False when either raises; retry_download is defined
\* in the script and applied to nothing. True is kept as "downloaded", False
\* as "failed".
FileFromS3(kind) ==
    IF DownloadFile(kind) = "written" THEN "downloaded" ELSE "failed"

\* The keys of the listing whose local_path does not exist, in listing order.
RECURSIVE FilesToDownload(_, _)
FilesToDownload(st, n) ==
    IF n = 0 THEN <<>>
    ELSE IF st[n] = "absent"
         THEN Append(FilesToDownload(st, n - 1), n)
         ELSE FilesToDownload(st, n - 1)

\* The listing loop and the dictionary of futures: every key whose
\* local_path exists is left out (kept here as "skipped"), every other key
\* is submitted; without any such key the function returns at once.
ScenarioSubmit ==
    /\ pcMain = "scenario"
    /\ queue' = FilesToDownload(store, nfiles)
    /\ submitted' = Len(queue')
    /\ result' = [i \in Items |->
                    IF i \in Files /\ store[i] # "absent"
                    THEN "skipped" ELSE "none"]
    /\ pcMain' = IF queue' = <<>> THEN "alldone" ELSE "collect"
    /\ UNCHANGED env
    /\ UNCHANGED reported
    /\ UNCHANGED <<engine, nfiles, parallel, run, prev, store, store0,
                   worker, tries, faults, last, claimed, counted, updates,
                   stats, slept, exitCode>>
    /\ UNCHANGED front

\* A pool thread takes the next submitted call.
ScenarioClaim(w) ==
    /\ worker[w].pc = "idle"
    /\ queue # <<>>
    /\ worker' = [worker EXCEPT ![w] = [item |-> Head(queue), pc |-> "fetch"]]
    /\ queue' = Tail(queue)
    /\ claimed' = [claimed EXCEPT ![Head(queue)] = @ + 1]
    /\ UNCHANGED env
    /\ UNCHANGED reported
    /\ UNCHANGED <<engine, nfiles, parallel, run, prev, store, store0,
                   pcMain, submitted, result, tries, faults, last, counted,
                   updates, stats, slept, exitCode>>
    /\ UNCHANGED front

\* download_file_from_s3 for the key a pool thread holds.
ScenarioFetch(w, kind) ==
    /\ worker[w].pc = "fetch"
    /\ kind \in AttemptKinds(engine)
    /\ LET i == worker[w].item
       IN  /\ tries' = [tries EXCEPT ![i] = @ + 1]
           /\ last' = [last EXCEPT ![i] = kind]
           /\ faults' = [faults EXCEPT
                           ![i] = IF kind \in RaisedKinds THEN @ + 1 ELSE @]
           /\ store' = [store EXCEPT ![i] = StoreAfter(kind, @)]
           /\ result' = [result EXCEPT ![i] = FileFromS3(kind)]
    /\ worker' = [worker EXCEPT ![w] = Idle]
    /\ UNCHANGED env
    /\ UNCHANGED reported
    /\ UNCHANGED <<engine, nfiles, parallel, run, prev, store0, pcMain,
                   submitted, queue, claimed, counted, updates, stats, slept,
                   exitCode>>
    /\ UNCHANGED front

\* One iteration of `for future in as_completed(futures)`: the result is
\* read and dropped, the progress bar moves.
ScenarioCollect(i) ==
    /\ pcMain = "collect"
    /\ i \in Files
    /\ claimed[i] > 0
    /\ result[i] # "none"
    /\ counted[i] = 0
    /\ counted' = [counted EXCEPT ![i] = @ + 1]
    /\ updates' = updates + 1
    /\ UNCHANGED env
    /\ UNCHANGED reported
    /\ UNCHANGED <<engine, nfiles, parallel, run, prev, store, store0,
                   pcMain, submitted, queue, worker, result, tries, faults,
                   last, claimed, stats, slept, exitCode>>
    /\ UNCHANGED front

\* Every future was yielded: "Scenario ... complete!", return True.
ScenarioFinish ==
    /\ pcMain = "collect"
    /\ updates = submitted
    /\ pcMain' = "complete"
    /\ UNCHANGED env
    /\ UNCHANGED reported
    /\ UNCHANGED <<engine, nfiles, parallel, run, prev, store, store0,
                   submitted, queue, worker, result, tries, faults, last,
                   claimed, counted, updates, stats, slept, exitCode>>
    /\ UNCHANGED front

\* download_scenario of a known scenario, its listing of nfiles keys read.
InitScenario ==
    /\ NoEnv
    /\ engine = "scenarios"
    /\ nfiles \in 0..MaxItems
    /\ parallel \in 1..MaxParallel
    /\ run = "first"
    /\ prev = ZeroStats
    /\ store \in [Items -> {"absent", "complete"}]
    /\ \A i \in Items : i > nfiles => store[i] = "absent"
    /\ store0 = store
    /\ pcMain = "scenario"
    /\ FreshPool
    /\ NoFront

NextScenario ==
    \/ ScenarioSubmit
    \/ \E w \in Workers : ScenarioClaim(w)
    \/ \E w \in Workers : \E kind \in AttemptKinds(engine) :
          ScenarioFetch(w, kind)
    \/ \E i \in Items : ScenarioCollect(i)
    \/ ScenarioFinish

ScenarioSpec == InitScenario /\ [][NextScenario]_vars

\* ------------------------------------------------ data_loader: the threads

\* How a source thread can have ended: its function returned ("done"),
\* returned after its own `except Exception` printed the fault ("caught"),
\* or was left by an exception nothing caught ("died": threading prints the
\* traceback and the thread ends).
Ended == {"done", "caught", "died"}

\* What a thread never joins: only a thread that ended cleanly counts.
Joinable_OnlyClean(s) == s = "done"

\* A join that returns at once, whatever the thread is doing.
Joinable_NoWait(s) == TRUE

\* thread.join() returns once the thread has ended, however it ended.
Joinable(s) == s \in Ended

\* The sources that enumerate through a remote listing or search API; the
\* GovDocs and SEC functions walk a fixed list of archive names.
Enumerating == {"Contracts", "Images", "FedRegister"}

\* What an enumeration request can do: answer, raise, answer with a status
\* other than 200, or answer 200 with a body that is not JSON. The S3
\* paginator answers or raises.
ListKinds(name) ==
    IF name = "Images" THEN {"ok", "raise"}
    ELSE {"ok", "raise", "status", "badbody"}

\* Where the source function is after its enumeration request.
\* Contracts: fetch_contracts runs under retry_download, r.json() included;
\* every fault ends as None and `break`, the count is printed.
\* Images: what the paginator raises reaches `except Exception`.
\* FedRegister: fetch_docs runs under retry_download and a missing or
\* non-200 response is passed over, but response.json() is called outside
\* of it and outside any try.
AfterList(name, kind) ==
    CASE kind = "ok" -> "fetching"
      [] name = "Images" -> "caught"
      [] name = "FedRegister" /\ kind = "badbody" -> "died"
      [] OTHER -> "done"

\* Where the source function is after its fetches. Every fetch runs under
\* retry_download, which turns what is raised into None; the contract
\* records are written by the function itself, inside its try.
AfterFetch(name, kind) ==
    IF name = "Contracts" /\ kind = "raise" THEN "caught" ELSE "done"

\* `for thread in threads: thread.start()`, one thread at a time in list
\* order; the thread runs from then on.
LoaderStart(k) ==
    /\ pcMain = "threads"
    /\ k \in 1..Len(Sources)
    /\ src[k] = "new"
    /\ \A j \in 1..(k - 1) : src[j] # "new"
    /\ src' = [src EXCEPT ![k] = IF Sources[k] \in Enumerating
                                 THEN "listing" ELSE "fetching"]
    /\ pcMain' = IF k = Len(Sources) THEN "join" ELSE "threads"
    /\ UNCHANGED <<keys, obsFault, joined, reported, response, count, ident>>
    /\ UNCHANGED <<engine, nfiles, parallel, run, prev, store, store0,
                   submitted, queue, worker, result, tries, faults, last,
                   claimed, counted, updates, stats, slept, exitCode>>
    /\ UNCHANGED front

\* The enumeration request of a source thread.
SourceList(k, kind) ==
    /\ k \in 1..Len(Sources)
    /\ src[k] = "listing"
    /\ kind \in ListKinds(Sources[k])
    /\ src' = [src EXCEPT ![k] = AfterList(Sources[k], kind)]
    /\ UNCHANGED <<keys, obsFault, joined, reported, response, count, ident>>
    /\ UNCHANGED <<engine, nfiles, parallel, run, prev, store, store0,
                   pcMain, submitted, queue, worker, result, tries, faults,
                   last, claimed, counted, updates, stats, slept, exitCode>>
    /\ UNCHANGED front

\* The fetches of a source thread, up to the return of its function.
SourceFetch(k, kind) ==
    /\ k \in 1..Len(Sources)
    /\ src[k] = "fetching"
    /\ kind \in {"ok", "raise", "status"}
    /\ src' = [src EXCEPT ![k] = AfterFetch(Sources[k], kind)]
    /\ UNCHANGED <<keys, obsFault, joined, reported, response, count, ident>>
    /\ UNCHANGED <<engine, nfiles, parallel, run, prev, store, store0,
                   pcMain, submitted, queue, worker, result, tries, faults,
                   last, claimed, counted, updates, stats, slept, exitCode>>
    /\ UNCHANGED front

\* `for thread in threads: thread.join()`: the main thread waits for the
\* threads in list order.
LoaderJoin ==
    /\ pcMain = "join"
    /\ joined < Len(Sources)
    /\ Joinable(src[joined + 1])
    /\ joined' = joined + 1
    /\ UNCHANGED <<keys, obsFault, src, reported, response, count, ident>>
    /\ UNCHANGED <<engine, nfiles, parallel, run, prev, store, store0,
                   pcMain, submitted, queue, worker, result, tries, faults,
                   last, claimed, counted, updates, stats, slept, exitCode>>
    /\ UNCHANGED front

\* print_summary() and "[*] DONE.": the script ends, exit status 0.
LoaderSummary ==
    /\ pcMain = "join"
    /\ joined = Len(Sources)
    /\ pcMain' = "summary"
    /\ exitCode' = 0
    /\ UNCHANGED env
    /\ UNCHANGED reported
    /\ UNCHANGED <<engine, nfiles, parallel, run, prev, store, store0,
                   submitted, queue, worker, result, tries, faults, last,
                   claimed, counted, updates, stats, slept>>
    /\ UNCHANGED front

\* data_loader.py after argument parsing: five threads built, none started.
InitLoader ==
    /\ NoEnv
    /\ engine = "loader"
    /\ nfiles = 0
    /\ parallel = 1
    /\ run = "first"
    /\ prev = ZeroStats
    /\ store = [i \in Items |-> "absent"]
    /\ store0 = store
    /\ pcMain = "threads"
    /\ FreshPool
    /\ NoFront

NextLoader ==
    \/ \E k \in 1..Len(Sources) : LoaderStart(k)
    \/ \E k \in 1..Len(Sources) : \E kind \in ListKinds(Sources[k]) :
          SourceList(k, kind)
    \/ \E k \in 1..Len(Sources) : \E kind \in {"ok", "raise", "status"} :
          SourceFetch(k, kind)
    \/ LoaderJoin
    \/ LoaderSummary

\* The main thread and the five source threads are operating-system
\* threads and every request carries a timeout: a thread that can take a
\* step eventually takes one.
LoaderSpec ==
    /\ InitLoader
    /\ [][NextLoader]_vars
    /\ WF_vars(LoaderJoin \/ LoaderSummary \/
               \E k \in 1..Len(Sources) : LoaderStart(k))
    /\ \A k \in 1..Len(Sources) :
          WF_vars(\E kind \in ListKinds(Sources[k]) : SourceList(k, kind))
          /\ WF_vars(\E kind \in {"ok", "raise", "status"} :
                        SourceFetch(k, kind))

\* ----------------------------------------- data_loader: download_amazon_images

\* The attempts a call of a retry_download wrapper can meet, one outcome per
\* pass of its loop.
Attempts == [1..MAX_RETRIES -> {"ok", "raise"}]

\* fetch_image: True when download_file returns, else what it raised.
FetchImage(kind) == IF DownloadFile(kind) = "written" THEN "True"
                    ELSE "exception"

\* A call of a wrapped function from pass `attempt` on, vals[a] being what
\* the function does in pass a: the passes of retry_download's loop follow
\* one another until one returns.
RECURSIVE Wrapped(_, _)
Wrapped(vals, attempt) ==
    LET r == RetryDownload(vals[attempt + 1], attempt)
    IN  IF r = "retry" THEN Wrapped(vals, attempt + 1) ELSE r

\* A loop that counts every .jpg key it passes, fetched or not.
Counted_Always(r) == TRUE

\* `if fetch_image(): count += 1`.
Counted(r) == r = "True"

\* The next object of the listing is taken by `for obj in page['Contents']`:
\* with the target reached the function returns; a key that does not end in
\* .jpg ("other") and a .jpg key whose local_path exists ("present") are
\* passed over without touching count; any other .jpg key goes to
\* fetch_image. The objects seen are counted in doc, the .jpg keys found
\* present in stats.skipped; a listing has at most MaxMisses of these.
ImagesObject(kind) ==
    /\ pcMain = "image"
    /\ doc < MaxObjects
    /\ kind \in {"jpg", "present", "other"}
    /\ kind = "present" => stats.skipped < MaxMisses
    /\ doc' = doc + 1
    /\ IF count >= limit[1]
       THEN pcMain' = "returned" /\ UNCHANGED stats
       ELSE IF kind = "jpg"
       THEN pcMain' = "imagefetch" /\ UNCHANGED stats
       ELSE /\ UNCHANGED pcMain
            /\ stats' = IF kind = "present"
                        THEN [stats EXCEPT !.skipped = @ + 1]
                        ELSE stats
    /\ UNCHANGED <<keys, obsFault, src, joined, response, count, ident>>
    /\ UNCHANGED reported
    /\ UNCHANGED <<engine, nfiles, parallel, run, prev, store, store0,
                   submitted, queue, worker, result, tries, faults, last,
                   claimed, counted, updates, slept, exitCode, args, limit,
                   remote, pagesRead, listErr>>

\* The call of the wrapped fetch_image and `if fetch_image(): count += 1;
\* pbar.update(1)`. stats.downloaded counts the calls in which some pass
\* wrote the file, stats.failed the calls in which every pass raised, of
\* which a run has at most MaxMisses.
ImagesFetch(kinds) ==
    /\ pcMain = "imagefetch"
    /\ kinds \in Attempts
    /\ (\A a \in 1..MAX_RETRIES : kinds[a] = "raise") =>
          stats.failed < MaxMisses
    /\ LET r == Wrapped([a \in 1..MAX_RETRIES |-> FetchImage(kinds[a])], 0)
       IN  /\ count' = IF Counted(r) THEN count + 1 ELSE count
           /\ updates' = IF Counted(r) THEN updates + 1 ELSE updates
    /\ stats' = IF \E a \in 1..MAX_RETRIES : kinds[a] = "ok"
                THEN [stats EXCEPT !.downloaded = @ + 1]
                ELSE [stats EXCEPT !.failed = @ + 1]
    /\ pcMain' = "image"
    /\ UNCHANGED <<keys, obsFault, src, joined, response, ident>>
    /\ UNCHANGED reported
    /\ UNCHANGED <<engine, nfiles, parallel, run, prev, store, store0,
                   submitted, queue, worker, result, tries, faults, last,
                   claimed, counted, slept, exitCode, args, limit, remote,
                   pagesRead, listErr, doc>>

\* The paginator has no further page: both loops end and the function
\* returns.
ImagesExhausted ==
    /\ pcMain = "image"
    /\ pcMain' = "exhausted"
    /\ UNCHANGED env
    /\ UNCHANGED reported
    /\ UNCHANGED <<engine, nfiles, parallel, run, prev, store, store0>>
    /\ UNCHANGED <<submitted, queue, worker, result, tries, faults, last,
                   claimed, counted, updates, stats, slept, exitCode>>
    /\ UNCHANGED front

\* The request for a page raises: `except Exception` prints "AWS Error" and
\* the function returns.
ImagesFault ==
    /\ pcMain = "image"
    /\ listErr' = TRUE
    /\ pcMain' = "caught"
    /\ UNCHANGED env
    /\ UNCHANGED reported
    /\ UNCHANGED <<engine, nfiles, parallel, run, prev, store, store0>>
    /\ UNCHANGED <<submitted, queue, worker, result, tries, faults, last,
                   claimed, counted, updates, stats, slept, exitCode>>
    /\ UNCHANGED <<args, limit, remote, pagesRead, doc>>

\* download_amazon_images at `count = 0`: target_count is 50 or 2000 by
\* mode; the listing has at most MaxObjects objects.
InitImages ==
    /\ NoEnv
    /\ engine = "images"
    /\ nfiles = 0
    /\ parallel = 1
    /\ run = "first"
    /\ prev = ZeroStats
    /\ store = [i \in Items |-> "absent"]
    /\ store0 = store
    /\ pcMain = "image"
    /\ FreshPool
    /\ args = NoArgs
    /\ limit \in {<<n>> : n \in IMAGE_TARGETS}
    /\ remote = <<>>
    /\ pagesRead = 0
    /\ listErr = FALSE
    /\ doc = 0

NextImages ==
    \/ \E kind \in {"jpg", "present", "other"} : ImagesObject(kind)
    \/ \E kinds \in Attempts : ImagesFetch(kinds)
    \/ ImagesExhausted
    \/ ImagesFault

ImagesSpec == InitImages /\ [][NextImages]_vars

\* ------------------------------------ data_loader: download_federal_contracts

\* fetch_contracts: r.json() when the status is 200, None for any other
\* status, or what requests.post or r.json() raised.
FetchContracts(kind) ==
    CASE kind = "ok" -> "data"
      [] kind = "status" -> "None"
      [] OTHER -> "exception"

\* payload["limit"] = min(100, limit - downloaded).
Requested(lim, d) == IF lim - d < PAGE_SIZE THEN lim - d ELSE PAGE_SIZE

\* The numbers of records a page can hold: none, one, as many as were asked
\* for, or one more than that.
PageSizes(lim, d) == {0, 1, Requested(lim, d), Requested(lim, d) + 1}

\* A loop over the records that saves every record of the page.
Saved_All(d, n, lim) == d + n

\* `for contract in results: if downloaded >= limit: break; ...;
\* downloaded += 1` over a page of n records: downloaded afterwards.
Saved(d, n, lim) == IF d + n > lim THEN lim ELSE d + n

\* One pass of `while downloaded < limit`: the wrapped fetch_contracts is
\* called; without data or without results the loop is left by `break`;
\* else the records are saved and page is incremented. doc keeps the number
\* of records of the page.
ContractsPage(kinds, n) ==
    /\ pcMain = "contracts"
    /\ count < limit[1]
    /\ kinds \in [1..MAX_RETRIES -> {"ok", "raise", "status"}]
    /\ n \in PageSizes(limit[1], count)
    /\ LET data == Wrapped([a \in 1..MAX_RETRIES |->
                               FetchContracts(kinds[a])], 0)
       IN  IF data = "None" \/ n = 0
           THEN /\ pcMain' = "contractsdone"
                /\ UNCHANGED <<count, updates, pagesRead, doc>>
           ELSE /\ count' = Saved(count, n, limit[1])
                /\ updates' = updates + (count' - count)
                /\ pagesRead' = pagesRead + 1
                /\ doc' = n
                /\ UNCHANGED pcMain
    /\ UNCHANGED <<keys, obsFault, src, joined, response, ident>>
    /\ UNCHANGED reported
    /\ UNCHANGED <<engine, nfiles, parallel, run, prev, store, store0,
                   submitted, queue, worker, result, tries, faults, last,
                   claimed, counted, stats, slept, exitCode, args, limit,
                   remote, listErr>>

\* A record cannot be saved (an 'Award ID' that is not a string, a write
\* that fails): the exception reaches the function's `except Exception`.
ContractsFault ==
    /\ pcMain = "contracts"
    /\ count < limit[1]
    /\ listErr' = TRUE
    /\ pcMain' = "caught"
    /\ UNCHANGED env
    /\ UNCHANGED reported
    /\ UNCHANGED <<engine, nfiles, parallel, run, prev, store, store0>>
    /\ UNCHANGED <<submitted, queue, worker, result, tries, faults, last,
                   claimed, counted, updates, stats, slept, exitCode>>
    /\ UNCHANGED <<args, limit, remote, pagesRead, doc>>

\* `while downloaded < limit` is false: the count is printed.
ContractsEnd ==
    /\ pcMain = "contracts"
    /\ count >= limit[1]
    /\ pcMain' = "contractsdone"
    /\ UNCHANGED env
    /\ UNCHANGED reported
    /\ UNCHANGED <<engine, nfiles, parallel, run, prev, store, store0>>
    /\ UNCHANGED <<submitted, queue, worker, result, tries, faults, last,
                   claimed, counted, updates, stats, slept, exitCode>>
    /\ UNCHANGED front

\* download_federal_contracts at `downloaded = 0`: limit is 50 or 500 by
\* mode.
InitContracts ==
    /\ NoEnv
    /\ engine = "contracts"
    /\ nfiles = 0
    /\ parallel = 1
    /\ run = "first"
    /\ prev = ZeroStats
    /\ store = [i \in Items |-> "absent"]
    /\ store0 = store
    /\ pcMain = "contracts"
    /\ FreshPool
    /\ args = NoArgs
    /\ limit \in {<<n>> : n \in CONTRACT_LIMITS}
    /\ remote = <<>>
    /\ pagesRead = 0
    /\ listErr = FALSE
    /\ doc = 0

NextContracts ==
    \/ \E kinds \in [1..MAX_RETRIES -> {"ok", "raise", "status"}] :
          \E n \in PageSizes(limit[1], count) : ContractsPage(kinds, n)
    \/ ContractsFault
    \/ ContractsEnd

\* The thread of download_federal_contracts keeps running, and every
\* requests.post carries a timeout: a pass that can be made is made.
ContractsSpec ==
    InitContracts /\ [][NextContracts]_vars /\ WF_vars(NextContracts)

\* --------------------- download_digitalcorpora_scenarios: download_file_corpus

\* The two functions of the script that take an id.
IdFunctions == {"scenarios", "corpus"}

\* The first statement of the function called with the id.
\* download_scenario: `if scenario_id not in SCENARIOS` prints "Unknown
\* scenario" and returns False ("unknown").
\* download_file_corpus: `if corpus_id not in FILE_CORPORA and corpus_id
\* not in LARGE_CORPORA`. The script defines no LARGE_CORPORA (its
\* definition was removed with the SAFEDOCS entries; lines 197, 201 and 287
\* still name it): for an id that is in FILE_CORPORA the `and` stops at its
\* first operand, and so does the `or` of line 201; for any other id the
\* second operand is evaluated and raises NameError, which nothing catches
\* up to the top of the script ("crashed", exit status 1).
Lookup ==
    /\ pcMain = "lookup"
    /\ IF ident = "known"
       THEN /\ pcMain' = IF engine = "scenarios" THEN "scenario" ELSE "corpus"
            /\ UNCHANGED exitCode
       ELSE IF engine = "scenarios"
       THEN pcMain' = "unknown" /\ UNCHANGED exitCode
       ELSE pcMain' = "crashed" /\ exitCode' = 1
    /\ UNCHANGED env
    /\ UNCHANGED reported
    /\ UNCHANGED <<engine, nfiles, parallel, run, prev, store, store0>>
    /\ UNCHANGED <<submitted, queue, worker, result, tries, faults, last,
                   claimed, counted, updates, stats, slept>>
    /\ UNCHANGED front

\* The listing loop of download_file_corpus from key i on, acc being
\* files_to_download so far: `if max_files and len(files_to_download) >=
\* max_files: break` stands before each key and again after each page, so
\* the scan stops at the first key met with the list full; a key whose
\* local_path exists is passed over. seen is the number of keys looked at.
RECURSIVE CorpusScan(_, _, _, _, _)
CorpusScan(st, n, lim, i, acc) ==
    IF i > n THEN [files |-> acc, seen |-> n]
    ELSE IF Truthy(lim) /\ Len(acc) >= lim[1]
         THEN [files |-> acc, seen |-> i - 1]
    ELSE IF st[i] = "absent"
         THEN CorpusScan(st, n, lim, i + 1, Append(acc, i))
    ELSE CorpusScan(st, n, lim, i + 1, acc)

\* The listing loop and the dictionary of futures of download_file_corpus:
\* the keys kept are submitted; with no key kept the function returns True
\* at once. A key looked at and found present is kept here as "skipped".
CorpusSubmit ==
    /\ pcMain = "corpus"
    /\ LET r == CorpusScan(store, nfiles, limit, 1, <<>>)
       IN  /\ queue' = r.files
           /\ result' = [i \in Items |->
                           IF i <= r.seen /\ store[i] # "absent"
                           THEN "skipped" ELSE "none"]
    /\ submitted' = Len(queue')
    /\ pcMain' = IF queue' = <<>> THEN "alldone" ELSE "collect"
    /\ UNCHANGED env
    /\ UNCHANGED reported
    /\ UNCHANGED <<engine, nfiles, parallel, run, prev, store, store0,
                   worker, tries, faults, last, claimed, counted, updates,
                   stats, slept, exitCode>>
    /\ UNCHANGED front

\* download_scenario or download_file_corpus is called from the script with
\* the id given on the command line; --limit (max_files) is passed to
\* download_file_corpus as parsed, None when absent; the prefix lists
\* nfiles keys, each local_path absent or left by an earlier run.
InitCorpus ==
    /\ keys = PlainKeys
    /\ obsFault = {}
    /\ src = [k \in 1..Len(Sources) |-> "new"]
    /\ joined = 0
    /\ response = "unasked"
    /\ count = 0
    /\ ident \in {"known", "unknown"}
    /\ engine \in IdFunctions
    /\ nfiles \in 0..MaxItems
    /\ parallel \in 1..MaxParallel
    /\ run = "first"
    /\ prev = ZeroStats
    /\ store \in [Items -> {"absent", "complete"}]
    /\ \A i \in Items : i > nfiles => store[i] = "absent"
    /\ store0 = store
    /\ pcMain = "lookup"
    /\ FreshPool
    /\ args = NoArgs
    /\ limit \in IF engine = "corpus"
                 THEN {<<>>} \cup {<<n>> : n \in -1..MaxItems}
                 ELSE {<<>>}
    /\ remote = <<>>
    /\ pagesRead = 0
    /\ listErr = FALSE
    /\ doc = 0

NextCorpus ==
    \/ Lookup
    \/ CorpusSubmit
    \/ NextScenario

CorpusSpec == InitCorpus /\ [][NextCorpus]_vars

\* ----------------------------------------------------------- command line

\* The pool, its bookkeeping and the tally: untouched before the run starts.
pool == <<submitted, queue, worker, result, tries, faults, last, claimed,
          counted, updates, stats, slept>>

\* Two of the names of DOWNLOAD_TIERS, the smallest and the largest.
Tiers == {"tiny", "complete"}

\* DOWNLOAD_TIERS[tier]['files'] of download_safedocs.py.
TierFiles(t) == IF t = "tiny" THEN 1000 ELSE 8000000

\* DOWNLOAD_TIERS[tier]['threads'] of download_govdocs.py.
TierThreads(t) == IF t = "tiny" THEN 1 ELSE GOVDOCS_THREADS

\* The command lines: --tier absent ("") or one of its choices, --limit
\* (--threads for govdocs) absent (<<>>) or an int, and for govdocs --start
\* (0 when absent) and --list.
CommandLines(e) ==
    [tier : {""} \cup Tiers,
     limit : {<<>>} \cup {<<n>> : n \in -1..MaxItems},
     start : IF e = "govdocs"
             THEN {-1, 0, GOVDOCS_THREADS - 1, GOVDOCS_THREADS}
             ELSE {0},
     list : IF e = "govdocs" THEN BOOLEAN ELSE {FALSE}]

\* Members of govdocs' mutually exclusive group present on the command line
\* (argparse takes an option for present when its value is not the default
\* object: --threads 0 is present).
GroupGiven(a) ==
    (IF a.tier # "" THEN 1 ELSE 0) + (IF a.limit # <<>> THEN 1 ELSE 0)
        + (IF a.list THEN 1 ELSE 0)

\* parser.parse_args(): the required mutually exclusive group of govdocs
\* ends the process through parser.error (status 2) unless exactly one of
\* its members is present; the parser of safedocs has no group.
ParseArgs ==
    /\ pcMain = "parse"
    /\ IF engine = "govdocs" /\ GroupGiven(args) # 1
       THEN pcMain' = "usage" /\ exitCode' = 2
       ELSE pcMain' = "validate" /\ UNCHANGED exitCode
    /\ UNCHANGED env
    /\ UNCHANGED reported
    /\ UNCHANGED <<engine, nfiles, parallel, run, prev, store, store0>>
    /\ UNCHANGED pool
    /\ UNCHANGED front

\* file_limit of download_safedocs: the tier's count `if tier`, the limit
\* `elif limit`, else None.
FileLimit(a) ==
    IF a.tier # "" THEN <<TierFiles(a.tier)>>
    ELSE IF Truthy(a.limit) THEN a.limit
    ELSE <<>>

\* `if not file_limit or file_limit > 100000`.
ConfirmFiles(fl) == ~Truthy(fl) \/ fl[1] > CONFIRM_FILES

\* main of download_safedocs after parse_args, and download_safedocs up to
\* the confirmation: the two tests are on the truth of args.tier and
\* args.limit, parser.error ends the process with status 2.
ValidateSafedocs ==
    /\ pcMain = "validate"
    /\ engine = "safedocs"
    /\ IF args.tier = "" /\ ~Truthy(args.limit)
       THEN pcMain' = "usage" /\ exitCode' = 2 /\ UNCHANGED limit
       ELSE IF args.tier # "" /\ Truthy(args.limit)
       THEN pcMain' = "usage" /\ exitCode' = 2 /\ UNCHANGED limit
       ELSE /\ limit' = FileLimit(args)
            /\ pcMain' = IF ConfirmFiles(limit') THEN "confirm" ELSE "list"
            /\ UNCHANGED exitCode
    /\ UNCHANGED env
    /\ UNCHANGED reported
    /\ UNCHANGED <<engine, nfiles, parallel, run, prev, store, store0>>
    /\ UNCHANGED pool
    /\ UNCHANGED <<args, remote, pagesRead, listErr, doc>>

\* num_threads: the tier's count or args.threads.
NumThreads(a) == IF a.tier # "" THEN TierThreads(a.tier) ELSE a.limit[1]

\* A validation that leaves num_threads as given.
Clamp_None(start, n) == n

\* `if args.start + num_threads > 1000: num_threads = 1000 - args.start`.
Clamp(start, n) ==
    IF start + n > GOVDOCS_THREADS THEN GOVDOCS_THREADS - start ELSE n

\* len(range(start_thread, start_thread + num_threads)).
RangeLen(n) == IF n > 0 THEN n ELSE 0

\* The i-th element of range(start_thread, start_thread + num_threads), the
\* thread number handed to download_single_thread for the i-th submitted
\* call.
ThreadNumber(start, i) == start + i - 1

\* __main__ of download_govdocs after parse_args: --list shows the tiers
\* and exits 0; a --start outside 0..999 prints an error and exits 1;
\* num_threads is cut to what lies above --start and is not tested
\* otherwise; 250 threads or more ask for confirmation; else download_govdocs
\* runs over the range (kept in nfiles as its length).
ValidateGovdocs ==
    /\ pcMain = "validate"
    /\ engine = "govdocs"
    /\ IF args.list
       THEN pcMain' = "listed" /\ exitCode' = 0 /\ UNCHANGED <<limit, nfiles>>
       ELSE IF args.start < 0 \/ args.start >= GOVDOCS_THREADS
       THEN pcMain' = "usage" /\ exitCode' = 1 /\ UNCHANGED <<limit, nfiles>>
       ELSE LET n == Clamp(args.start, NumThreads(args))
            IN  /\ limit' = <<n>>
                /\ IF n >= CONFIRM_THREADS
                   THEN pcMain' = "confirm" /\ UNCHANGED nfiles
                   ELSE pcMain' = "start" /\ nfiles' = RangeLen(n)
                /\ UNCHANGED exitCode
    /\ UNCHANGED env
    /\ UNCHANGED reported
    /\ UNCHANGED <<engine, parallel, run, prev, store, store0>>
    /\ UNCHANGED pool
    /\ UNCHANGED <<args, remote, pagesRead, listErr, doc>>

\* What the user types at the prompt: 'yes' or 'y' in either case, 'no', or
\* nothing but the return key.
Answers == {"yes", "YES", "y", "no", ""}

\* response.lower(), over the answers above.
Lower(r) == IF r = "YES" THEN "yes" ELSE r

\* A prompt whose answer is never taken for a refusal.
Declined_Never(r) == FALSE

\* `if response.lower() not in ['yes', 'y']`.
Declined(r) == Lower(r) \notin {"yes", "y"}

\* The confirmation: any other answer prints that the download is cancelled
\* and ends the process with status 0 (return from download_safedocs,
\* sys.exit(0) in govdocs). After 'yes' safedocs lists the bucket; govdocs
\* runs over 250 threads or more, which lies beyond MaxItems and is not
\* followed further ("beyond").
Confirm(answer) ==
    /\ pcMain = "confirm"
    /\ IF Declined(answer)
       THEN pcMain' = "cancelled" /\ exitCode' = 0
       ELSE /\ pcMain' = IF engine = "safedocs" THEN "list" ELSE "beyond"
            /\ UNCHANGED exitCode
    /\ response' = answer
    /\ UNCHANGED <<keys, obsFault, src, joined, count, ident>>
    /\ UNCHANGED reported
    /\ UNCHANGED <<engine, nfiles, parallel, run, prev, store, store0>>
    /\ UNCHANGED pool
    /\ UNCHANGED front

\* What the bucket holds in the runs started from the command line: one
\* page of file keys.
SimpleListings == {<<[k \in 1..n |-> "file"]>> : n \in 0..MaxItems}

\* The script is started: any command line, a pool of one thread, the
\* first destination absent or blocked, the others absent.
InitCli ==
    /\ NoEnv
    /\ engine \in Engines
    /\ args \in CommandLines(engine)
    /\ nfiles = 0
    /\ parallel = 1
    /\ run = "first"
    /\ prev = ZeroStats
    /\ store \in [Items -> {"absent", "blocked"}]
    /\ \A i \in Items : i > 1 => store[i] = "absent"
    /\ store0 = store
    /\ pcMain = "parse"
    /\ FreshPool
    /\ limit = <<>>
    /\ remote \in IF engine = "safedocs" THEN SimpleListings ELSE {<<>>}
    /\ pagesRead = 0
    /\ listErr = FALSE
    /\ doc = 0

\* The whole script: command line, confirmation, listing, run.
NextCli ==
    \/ ParseArgs
    \/ ValidateSafedocs
    \/ ValidateGovdocs
    \/ \E answer \in Answers : Confirm(answer)
    \/ NextList
    \/ Unwind

CliSpec == InitCli /\ [][NextCli]_vars

\* Requests sent to the remote so far: listing pages and fetch attempts.
RECURSIVE TriesUpTo(_)
TriesUpTo(n) == IF n = 0 THEN 0 ELSE TriesUpTo(n - 1) + tries[n]

RemoteRequests == pagesRead + TriesUpTo(MaxItems)

RunEnded == pcMain \in {"summary", "nofiles"}

Outcomes == {"downloaded", "skipped", "failed"}

TallySum == stats.downloaded + stats.skipped + stats.failed

\* Items a worker has taken and whose future has no result yet.
InFlight == {i \in Files : claimed[i] > 0 /\ result[i] = "none"}

\* ------------------------------------------------------------------ claims

\* C1: when a run over N enumerated items completes, the tally satisfies
\* downloaded + skipped + failed = N, for every N, every pool size and every
\* mix of present, succeeding and failing items.
C1_TallySumsToN == pcMain = "summary" => TallySum = nfiles

C1_Witness ==
    /\ pcMain = "summary"
    /\ nfiles = 2
    /\ parallel = 2
    /\ stats.failed = 1
    /\ stats.skipped = 1

\* C2: within one run no item is taken by two workers or held by two workers
\* at once, no item is tallied twice, and when the run completes every
\* enumerated item has been taken by exactly one worker and has produced
\* exactly one outcome.
C2_ExactlyOneOutcome ==
    /\ \A i \in Items : claimed[i] <= 1 /\ counted[i] <= 1
    /\ \A w1, w2 \in Workers :
          (w1 # w2 /\ worker[w1].item # 0) => worker[w1].item # worker[w2].item
    /\ pcMain = "summary" =>
          \A i \in Files :
              claimed[i] = 1 /\ counted[i] = 1 /\ result[i] \in Outcomes

C2_Witness ==
    /\ parallel = 2
    /\ worker[1].item = 2
    /\ worker[2].item = 1
    /\ worker[1].pc = "fetch"
    /\ worker[2].pc = "fetch"

\* C3: an operation whose first MAX_RETRIES - 1 attempts raise and whose next
\* attempt succeeds is recorded as downloaded; one whose MAX_RETRIES attempts
\* all raise is recorded as failed after exactly MAX_RETRIES attempts, and an
\* operation is given up on a raised fault only then.
C3_RetryBound ==
    \A i \in Files :
        /\ tries[i] <= MAX_RETRIES
        /\ faults[i] <= MAX_RETRIES
        /\ (faults[i] = MAX_RETRIES - 1 /\ last[i] = "ok")
              => result[i] = "downloaded"
        /\ faults[i] = MAX_RETRIES
              => (result[i] = "failed" /\ tries[i] = MAX_RETRIES)
        /\ (result[i] = "failed" /\ last[i] \in RaisedKinds)
              => (faults[i] = MAX_RETRIES /\ tries[i] = MAX_RETRIES)

C3_Witness ==
    /\ engine = "govdocs"
    /\ \E i, j \in Files :
          /\ faults[i] = MAX_RETRIES - 1
          /\ result[i] = "downloaded"
          /\ faults[j] = MAX_RETRIES
          /\ result[j] = "failed"

\* The destination of item i was there when the run started, as each script
\* understands it: any file for safedocs, a directory with entries for
\* govdocs.
PresentAtStart(i) ==
    \/ engine = "safedocs" /\ store0[i] # "absent"
    \/ engine = "govdocs" /\ store0[i] \in {"partial", "complete"}

\* C4 as stated: an item whose destination exists and is non-empty is skipped
\* without any fetch, and every other item goes to the fetch path.
C4_SkipIffPresentNonEmpty ==
    \A i \in Files :
        result[i] # "none" =>
            IF store0[i] \in {"partial", "complete"}
            THEN result[i] = "skipped" /\ tries[i] = 0
            ELSE result[i] # "skipped" /\ tries[i] >= 1

\* C4 as amended: an item whose destination exists when the run starts (for
\* govdocs: a directory with at least one entry; for safedocs: a file, empty
\* or not) is skipped and no fetch is ever attempted for it; every other item
\* goes to the fetch path (at least one attempt, never skipped); the skipped
\* count of a completed run is the number of items that were present.
C4_SkipIffPresent ==
    /\ \A i \in Files :
          /\ PresentAtStart(i) => tries[i] = 0
          /\ result[i] # "none" =>
                IF PresentAtStart(i)
                THEN result[i] = "skipped"
                ELSE result[i] # "skipped" /\ tries[i] >= 1
    /\ pcMain = "summary" =>
          stats.skipped = Cardinality({i \in Files : PresentAtStart(i)})

\* Two items on two workers, the first one present as an empty file, the
\* second one absent: downloaded 1, skipped 1, failed 0.
C4_Witness ==
    /\ pcMain = "summary"
    /\ engine = "safedocs"
    /\ nfiles = 2
    /\ parallel = 2
    /\ store0[1] = "empty"
    /\ store0[2] = "absent"
    /\ tries[1] = 0
    /\ stats = [downloaded |-> 1, skipped |-> 1, failed |-> 0]

\* C5: a failing item never aborts the run: every run that starts reaches
\* its end, and at the summary every item has its outcome tallied, the items
\* whose fetch succeeded being downloaded whatever happened to the others.
C5_FailureNeverAborts ==
    /\ (pcMain = "start") ~> RunEnded
    /\ [](pcMain = "summary" =>
             \A i \in Files :
                 /\ result[i] \in Outcomes
                 /\ counted[i] = 1
                 /\ last[i] = "ok" => result[i] = "downloaded")

C5_Witness ==
    /\ pcMain = "summary"
    /\ \E i, j \in Files :
          /\ i < j
          /\ faults[i] = MAX_RETRIES
          /\ result[i] = "failed"
          /\ last[j] = "ok"
          /\ result[j] = "downloaded"

\* C6: a non-success HTTP status is retried like a raised fault, so an item
\* whose latest attempt got such a status is reported failed only after
\* MAX_RETRIES attempts.
C6_StatusRetried ==
    \A i \in Files :
        (result[i] = "failed" /\ last[i] = "status") => tries[i] = MAX_RETRIES

\* C7: idempotence: after a first run in which nothing failed, a second run
\* over the same store attempts no fetch at all and ends with downloaded = 0
\* and skipped = N.
C7_Idempotent ==
    (run = "second" /\ prev.failed = 0) =>
        /\ \A i \in Files : tries[i] = 0
        /\ pcMain = "summary" =>
              (stats.downloaded = 0 /\ stats.skipped = nfiles)

C7_Witness ==
    /\ run = "second"
    /\ prev = [downloaded |-> 1, skipped |-> 1, failed |-> 0]
    /\ pcMain = "summary"
    /\ engine = "govdocs"
    /\ nfiles = 2
    /\ stats.skipped = 2

\* C8: for the zip-based source an archive is skipped only if its extraction
\* completed: an extraction that faulted part-way is not taken for present.
C8_SkipOnlyComplete ==
    engine = "govdocs" =>
        \A i \in Files : result[i] = "skipped" => store[i] = "complete"

\* What the item's own store state and fetch behaviour determine.
ExpectedOutcome(i) ==
    IF PresentAtStart(i) THEN "skipped"
    ELSE IF last[i] = "ok" THEN "downloaded"
    ELSE "failed"

ExpectedCount(o) == Cardinality({i \in Files : ExpectedOutcome(i) = o})

\* C9: the tally of a completed run is determined by the items, the store
\* and each item's fetch behaviour alone, whatever the pool size and the
\* interleaving of the workers: each counter is the number of items whose
\* own behaviour gives that outcome, none lost and none counted twice.
C9_TallyIndependentOfSchedule ==
    pcMain = "summary" =>
        /\ stats.downloaded = ExpectedCount("downloaded")
        /\ stats.skipped = ExpectedCount("skipped")
        /\ stats.failed = ExpectedCount("failed")

\* Both workers ran at once and the item submitted second finished first.
C9_Witness ==
    /\ parallel = 2
    /\ nfiles = 2
    /\ pcMain = "collect"
    /\ counted[2] = 1
    /\ counted[1] = 0
    /\ result[1] = "none"
    /\ stats.failed = 1

\* C10: at every moment at most `parallel` items are being processed, and a
\* worker lets go of the item it holds only when that item has its outcome.
C10_BoundedConcurrency ==
    /\ [](Cardinality(InFlight) <= parallel)
    /\ [][\A w \in Workers :
             (worker[w].item # 0 /\ worker'[w].item # worker[w].item)
                 => result'[worker[w].item] \in Outcomes]_vars

\* Every worker is busy and an item is waiting in the queue.
C10_Witness ==
    /\ Cardinality(InFlight) = parallel
    /\ \A w \in Workers : worker[w].pc # "idle"
    /\ queue # <<>>

\* C11: the tally is written at one place only, the main thread's collection
\* loop, one finished item per step: every step that changes a counter is a
\* step of the main thread in that loop, moves no worker, marks exactly one
\* finished and not yet tallied item as tallied and adds exactly one to the
\* counter of that item's status; so the counters always add up to the number
\* of items tallied so far and no increment is lost.
C11_SingleAccumulationPoint ==
    /\ [](TallySum = Cardinality({i \in Files : counted[i] = 1}))
    /\ [][stats' # stats =>
             /\ pcMain = "collect"
             /\ pcMain' = "collect"
             /\ worker' = worker
             /\ result' = result
             /\ \E i \in Files :
                   /\ result[i] \in Outcomes
                   /\ counted[i] = 0
                   /\ counted' = [counted EXCEPT ![i] = 1]
                   /\ stats' = Tally(engine, stats, result[i])
                   /\ TallySum' = TallySum + 1]_vars

\* Two futures are finished at the same moment, one of them tallied and the
\* other still waiting for the main thread.
C11_Witness ==
    /\ pcMain = "collect"
    /\ parallel = 2
    /\ nfiles = 2
    /\ result[1] \in Outcomes
    /\ result[2] \in Outcomes
    /\ result[1] # result[2]
    /\ counted[1] + counted[2] = 1
    /\ TallySum = 1

\* The page of the listing on which its L-th file key lies.
PageOf(L) == CHOOSE p \in 1..Len(remote) :
                 FilesUpTo(remote, p) >= L /\ FilesUpTo(remote, p - 1) < L

\* C12: with an item ceiling L >= 1 and a remote listing that holds more than
\* L file keys, a listing that does not fault never collects more than L keys
\* nor requests a page beyond the one holding the L-th key; it returns
\* exactly L keys after requesting exactly the pages up to that one, and the
\* run that follows processes exactly those L items.
C12_TruncatedListing ==
    (Truthy(limit) /\ limit[1] >= 1 /\ FileCount(remote) > limit[1]
        /\ ~listErr) =>
        /\ nfiles <= limit[1]
        /\ pagesRead <= PageOf(limit[1])
        /\ pcMain # "list" =>
              /\ nfiles = limit[1]
              /\ pagesRead = PageOf(limit[1])
        /\ pcMain = "summary" =>
              /\ TallySum = limit[1]
              /\ \A i \in Items : counted[i] = IF i <= limit[1] THEN 1 ELSE 0

\* Limit 1 over a listing of two pages, a directory marker and a file key on
\* the first, another file key on the second: one page requested, one item
\* downloaded.
C12_Witness ==
    /\ limit = <<1>>
    /\ remote = << <<"dir", "file">>, <<"file">> >>
    /\ pagesRead = 1
    /\ pcMain = "summary"
    /\ stats.downloaded = 1

\* C13: the write of an item is all-or-nothing: a destination that the
\* existence check accepts is fully written, whatever attempts faulted on it,
\* so a rerun skips only items that are fully written.
C13_WriteAllOrNothing ==
    engine = "register" =>
        \A i \in Files :
            /\ LocalPathExists(store[i]) => store[i] = "complete"
            /\ result[i] = "skipped" => store[i] = "complete"

\* C14: no fault of a single item's processing leaves the engine: every
\* finished item carries one of the three outcomes, an item whose existence
\* check faults ends failed, and the collection loop never raises.
C14_ItemFaultContained ==
    /\ pcMain \notin {"raised", "crashed"}
    /\ \A i \in Files :
          /\ result[i] \in Outcomes \cup {"none"}
          /\ (ExistsRaises(engine, store0[i]) /\ result[i] # "none")
                => result[i] = "failed"

\* C15: every fetch goes through the retry policy, in the scenario
\* downloader as in the others: a fetch that raised is attempted again as
\* long as fewer than MAX_RETRIES attempts were made, so an item is failed
\* only after MAX_RETRIES attempts.
C15_EveryFetchRetried ==
    \A i \in Files :
        (result[i] = "failed" /\ last[i] = "raise") => tries[i] = MAX_RETRIES

\* C16: the retry loop makes at most MAX_RETRIES attempts for an item and
\* none after the attempt that gave the item its outcome; it sleeps
\* RETRY_DELAY once after every attempt that is followed by another one and
\* not after the last: while an item is being retried it has slept once per
\* attempt made, and once it has its outcome it has slept once per attempt
\* but the last.
C16_RetrySchedule ==
    /\ [](\A i \in Files :
             /\ tries[i] <= MAX_RETRIES
             /\ (tries[i] > 0 /\ result[i] = "none")
                   => (slept[i] = RETRY_DELAY * tries[i]
                          /\ faults[i] = tries[i])
             /\ (tries[i] > 0 /\ result[i] # "none")
                   => slept[i] = RETRY_DELAY * (tries[i] - 1)
             /\ last[i] = "ok" => result[i] = "downloaded")
    /\ [][\A i \in Files :
             result[i] # "none"
                 => (tries'[i] = tries[i] /\ slept'[i] = slept[i])]_vars

\* One item was given up after MAX_RETRIES attempts and two sleeps, another
\* succeeded at its second attempt after one sleep.
C16_Witness ==
    \E i, j \in Files :
        /\ result[i] = "failed"
        /\ tries[i] = MAX_RETRIES
        /\ slept[i] = RETRY_DELAY * (MAX_RETRIES - 1)
        /\ result[j] = "downloaded"
        /\ tries[j] = 2
        /\ slept[j] = RETRY_DELAY

\* C17: a command line is rejected for its tier / limit options exactly when
\* both --tier and the numeric limit are given or neither is, whatever the
\* value of the limit, 0 included (runs of govdocs --list set aside).
C17_ExactlyOneOfTierLimit ==
    (pcMain \notin {"parse", "validate"} /\ ~args.list) =>
        ((pcMain = "usage" /\ exitCode = 2)
            <=> ((args.tier # "") = (args.limit # <<>>)))

\* C18: a command line that gives both or neither of tier and limit, a limit
\* that is zero or negative, or a start outside 0..999, ends the process
\* with a non-zero status before anything is requested from the remote, and
\* no run that ends with a usage error has sent a request.
C18_UsageErrorBeforeFetch ==
    LET usageError ==
            \/ (args.tier # "") = (args.limit # <<>>)
            \/ args.limit # <<>> /\ args.limit[1] <= 0
            \/ args.start < 0
            \/ args.start >= GOVDOCS_THREADS
    IN  /\ pcMain = "usage" => (exitCode \notin {-1, 0} /\ RemoteRequests = 0)
        /\ (usageError /\ ~args.list) =>
              /\ RemoteRequests = 0
              /\ exitCode # 0
              /\ pcMain \in {"parse", "validate", "usage"}

\* C19: a run that completes ends with exit status 0 however many items
\* failed, and the exit status is non-zero only after a usage error.
C19_ExitCode ==
    /\ pcMain = "summary" => exitCode = 0
    /\ exitCode \notin {-1, 0} => pcMain = "usage"

\* C20: a process that has ended after passing argument validation (neither
\* a usage error, nor --list, nor a declined confirmation) has printed the
\* tally, which is 0/0/0 when nothing was enumerated.
C20_AlwaysTally ==
    (exitCode # -1 /\ pcMain \notin {"usage", "listed", "cancelled"}) =>
        /\ pcMain = "summary"
        /\ nfiles = 0 => stats = ZeroStats

\* C21: at the end of a run the items reported as failed are exactly the
\* items whose outcome was failed, each of them named.
C21_FailedItemsReported ==
    pcMain = "summary" =>
        reported = {i \in Files : result[i] = "failed"}

\* C22: the progress observer is notified once per enumerated item, after
\* the item's outcome is known, so a finished run has made as many
\* notifications as there were enumerated items.
C22_ObserverOncePerItem ==
    /\ \A i \in Items : counted[i] > 0 => result[i] # "none"
    /\ updates = Cardinality({i \in Files : counted[i] > 0})
    /\ pcMain \in {"summary", "complete", "alldone"} => updates = nfiles

\* C23: a fault raised by the observer while it handles one item's outcome
\* is swallowed: the run is not aborted, and a run that has ended has counted
\* every item in the tally.
C23_ObserverFaultSwallowed ==
    obsFault # {} =>
        /\ pcMain \notin {"raised", "crashed"}
        /\ exitCode # -1 => \A i \in Files : counted[i] > 0

\* C24: enumeration is streamed into dispatch: while a further listing page
\* is still to be requested, the file keys of the pages already retrieved
\* have been handed to the pool, so that a worker can fetch them meanwhile.
C24_StreamedDispatch ==
    (pcMain = "list" /\ 0 < pagesRead /\ pagesRead < Len(remote)) =>
        submitted = nfiles

\* C25: a fault in the enumeration of one data_loader source ends that
\* source's thread only: every thread is joined and the process reaches
\* its final summary, whatever the sources met.
C25_SourceFaultContained ==
    <>(pcMain = "summary" /\ joined = Len(Sources)
       /\ \A k \in 1..Len(Sources) : src[k] \in Ended)

\* A run that ended with the summary, in which the Images listing raised,
\* the FedRegister listing killed its thread and the other three sources
\* ran to their normal end.
C25_Witness ==
    /\ pcMain = "summary"
    /\ src = <<"done", "done", "caught", "done", "died">>

\* C26: the items dispatched in one run have pairwise distinct destination
\* paths, and no two workers are at the same time inside the
\* existence-check-then-write sequence of the same destination path.
C26_DistinctDestinations ==
    /\ \A i, j \in 1..submitted :
          i # j => Dest(engine, keys, i) # Dest(engine, keys, j)
    /\ \A v, w \in Workers :
          (v # w /\ worker[v].pc # "idle" /\ worker[w].pc # "idle") =>
              Dest(engine, keys, worker[v].item) #
                  Dest(engine, keys, worker[w].item)

\* C27: download_single_file returns 'skipped' only for an item whose
\* destination existed before the item's first fetch attempt: an item with
\* an attempt that faulted is never reported 'skipped' afterwards.
C27_SkippedOnlyIfPresentBefore ==
    engine = "safedocs" =>
        \A i \in Files :
            result[i] = "skipped" => tries[i] = 0

\* C28: download_single_thread reports 'success' exactly when an attempt
\* fetched the archive with status 200 and extracted it without a fault, an
\* archive without entries included (the attempt that ends the retry loop
\* is the last one made).
C28_SuccessIffFetchedAndExtracted ==
    engine = "govdocs" =>
        \A i \in Files :
            result[i] \in {"downloaded", "failed"} =>
                (result[i] = "downloaded" <=> last[i] \in {"ok", "empty"})

\* C29: in the GovDocs downloader every dispatched thread number lies in
\* 0..999; once dispatch is over the dispatched numbers are exactly
\* start .. min(start + num_threads, 1000) - 1, each dispatched once; and a
\* start outside 0..999 ends the process with status 1, nothing dispatched.
C29_DispatchedRange ==
    LET given == NumThreads(args)
        upper == IF args.start + given < GOVDOCS_THREADS
                 THEN args.start + given ELSE GOVDOCS_THREADS
        validated == GroupGiven(args) = 1 /\ ~args.list
                        /\ pcMain \notin {"parse", "validate"}
    IN  (engine = "govdocs" /\ validated) =>
            /\ \A i \in 1..submitted :
                  /\ ThreadNumber(args.start, i) \in 0..(GOVDOCS_THREADS - 1)
                  /\ claimed[i] <= 1
            /\ pcMain \in {"collect", "summary", "raised", "crashed"} =>
                  {ThreadNumber(args.start, i) : i \in 1..submitted}
                      = args.start..(upper - 1)
            /\ args.start \notin 0..(GOVDOCS_THREADS - 1) =>
                  /\ exitCode = 1
                  /\ submitted = 0
                  /\ nfiles = 0

\* --start 999 --threads 2: the range is cut to the single thread 999, which
\* was dispatched, fetched and counted.
C29_Witness ==
    /\ engine = "govdocs"
    /\ args.start = GOVDOCS_THREADS - 1
    /\ args.limit = <<2>>
    /\ pcMain = "summary"
    /\ submitted = 1
    /\ claimed[1] = 1

\* C30: a listing fault on any page makes list_s3_files return an empty
\* list, the keys of earlier pages discarded: after it no item is
\* dispatched or fetched in that run.
C30_ListingFaultDispatchesNothing ==
    listErr =>
        /\ nfiles = 0
        /\ submitted = 0
        /\ queue = <<>>
        /\ \A i \in Items : claimed[i] = 0 /\ tries[i] = 0
        /\ pcMain \in {"start", "nofiles"}

\* The run has ended after the request for the second page raised, the
\* first page having held a file key.
C30_Witness ==
    /\ listErr
    /\ pagesRead = 2
    /\ FilesIn(remote[1]) >= 1
    /\ ~(Truthy(limit) /\ limit[1] <= 1)
    /\ pcMain = "nofiles"

\* C31: in data_loader's main all five source threads are started before
\* any of them is joined, and the summary is produced only after every one
\* of the five has ended and been joined.
C31_StartAllThenJoinAll ==
    /\ joined > 0 => \A k \in 1..Len(Sources) : src[k] # "new"
    /\ \A k \in 1..joined : src[k] \in Ended
    /\ pcMain = "summary" =>
          /\ joined = Len(Sources)
          /\ \A k \in 1..Len(Sources) : src[k] \in Ended

\* The summary after a run in which every source returned normally except
\* Contracts, which ended in its own except branch.
C31_Witness ==
    /\ pcMain = "summary"
    /\ joined = Len(Sources)
    /\ src = <<"done", "caught", "done", "done", "done">>

C33_ImageCounter ==
    engine = "images" =>
        /\ count <= limit[1]
        /\ count = stats.downloaded
        /\ count = updates
        /\ pcMain = "imagefetch" => count < limit[1]
        /\ pcMain = "returned" => count = limit[1]
        /\ pcMain = "caught" => listErr

\* The target of 50 was reached and the function returned at the next
\* object, one .jpg having been present and one fetch having given up on
\* the way.
C33_Witness ==
    /\ engine = "images"
    /\ pcMain = "returned"
    /\ count = 50
    /\ stats.skipped = 1
    /\ stats.failed = 1

\* C34: download_federal_contracts always terminates with downloaded <=
\* limit: every pass of its loop either leaves the loop or strictly
\* increases downloaded, and downloaded never exceeds limit, also when a
\* page holds more records than were asked for.
C34_ContractsTerminate ==
    /\ [](count <= limit[1])
    /\ [][(pcMain = "contracts" /\ pcMain' = "contracts") =>
              count' > count]_vars
    /\ <>(pcMain \in {"contractsdone", "caught"} /\ count <= limit[1])

\* The first page held 51 records where 50 were asked for: 50 were saved
\* and the function ended.
C34_Witness ==
    /\ engine = "contracts"
    /\ pcMain = "contractsdone"
    /\ limit = <<50>>
    /\ pagesRead = 1
    /\ doc = 51
    /\ count = 50

\* C35: download_file_corpus with max_files = M dispatches at most M
\* downloads (none for a negative M), each for a destination that was
\* absent when it was listed; files already present do not count toward M;
\* and with nothing missing it returns True without any dispatch.
C35_AtMostMaxFiles ==
    LET M == IF limit[1] < 0 THEN 0 ELSE limit[1]
        missing == {i \in Files : store0[i] = "absent"}
    IN  (engine = "corpus" /\ limit # <<>>
            /\ pcMain \in {"collect", "complete", "alldone"}) =>
            /\ submitted <= M
            /\ \A i \in Items : claimed[i] > 0 => store0[i] = "absent"
            /\ submitted = IF Cardinality(missing) < M
                           THEN Cardinality(missing) ELSE M
            /\ missing = {} => (pcMain = "alldone" /\ submitted = 0)

\* C36: download_file_corpus, and download_scenario alike, called with an
\* id that is not known reports it and returns False as an ordinary result:
\* nothing is raised, nothing is listed or fetched.
C36_UnknownIdReturnsFalse ==
    (ident = "unknown" /\ pcMain # "lookup") =>
        /\ pcMain = "unknown"
        /\ exitCode # 1
        /\ submitted = 0
        /\ \A i \in Items : tries[i] = 0

====
